---- MODULE Spec2Model ----
(***************************************************************************)
(* Solaris: the stochastic panel lifecycle engine.                         *)
(*                                                                         *)
(*   Panel (src/solaris-py/panel/panel.py): one solar panel, its ageing,   *)
(*   failure, degradation and soiling state.                               *)
(*   Farm  (src/solaris-py/farm/farm.py): a dict of Panels keyed by a      *)
(*   process-wide unique id, with replacement scheduling.                  *)
(*                                                                         *)
(* Real numbers are fixed-point integers; every scale is a definition:     *)
(*   health               in units of 1/HealthOne                          *)
(*   cleanliness          in units of 1/CleanOne                           *)
(*   current_degradation  in units of 1/DegOne, DegOne = 8760 * RateDen,   *)
(*                        so that an annualised rate k/RateDen divided by  *)
(*                        hours_in_year (panel.py:50-51) is k units/hour   *)
(*   random.random()      in units of 1/ChanceOne                          *)
(***************************************************************************)
EXTENDS Integers, Sequences, FiniteSets, TLC

VARIABLES
    unit,            \* a Panel the driver constructed itself (or NoPanel)
    farms,           \* the Farm objects: their attributes and their panels dict
    registered_ids,  \* Farm.registered_ids, the class attribute
    issued,          \* every id Farm._generate_id has returned, in order
    call,            \* the Farm method each Farm is executing, and where
    last,            \* the last completed call: its arguments and outcome
    calls,           \* the number of Panel method calls made so far
    replay           \* two Panels built alike and driven alike, and the
                     \* generator of the random module

vars == <<unit, farms, registered_ids, issued, call, last, calls, replay>>

farmVars == <<farms, registered_ids, issued, call>>

(***************************************************************************)
(* Scales and program constants.                                           *)
(***************************************************************************)
hours_in_year == 8760

RateDen == 1000

DegOne == hours_in_year * RateDen

HealthOne == 1000000

\* the 1e-6 of panel.py:187, in health units
HealthEps == 1

CleanOne == 10000

\* self.min_cleanliness = 0.8
min_cleanliness == 8000

ChanceOne == 100

Max(a, b) == IF a >= b THEN a ELSE b

Min(a, b) == IF a <= b THEN a ELSE b

(***************************************************************************)
(* Panel                                                                   *)
(***************************************************************************)
NoId == 0

\* current_output is the product ideal_output * fluctuation * cleanliness *
\* current_degradation of panel.py:191, kept as its factors: position is the
\* place of the uniform draw in [-current_fluctuation, current_fluctuation]
\* (-1, 0, 1: bottom, middle, top), amp_num / amp_den the instability factor.
ZeroOutput ==
    [ideal |-> 0, fluctuation |-> 0, amp_num |-> 0, amp_den |-> 1,
     position |-> 0, cleanliness |-> 0, degradation |-> 0]

OutputIsZero(o) ==
    \/ o.ideal = 0
    \/ o.fluctuation = 0
    \/ o.amp_num = 0
    \/ o.position = 0
    \/ o.cleanliness = 0
    \/ o.degradation = 0

\* A keyword argument of Panel(**config), or the default of the signature.
Arg(config, name, default) ==
    IF name \in DOMAIN config THEN config[name] ELSE default

\* Panel.__init__(**config): first_phase_degradation and annual_degradation
\* arrive as annualised rates in units of 1/RateDen and are stored per hour,
\* which in units of 1/DegOne is the same number.
PanelInit(config) ==
    [panel_id                 |-> config.panel_id,
     max_output               |-> config.max_output,
     fluctuation              |-> config.fluctuation,
     failure_rate             |-> config.failure_rate,
     current_degradation      |-> config.current_degradation,
     failure_progression_rate |-> config.failure_progression_rate,
     first_phase_degradation  |-> config.first_phase_degradation,
     annual_degradation       |-> config.annual_degradation,
     active_hours             |-> Arg(config, "active_hours", 0),
     days_to_replace          |-> -1,
     current_output           |-> ZeroOutput,
     health                   |-> Arg(config, "health", HealthOne),
     failing                  |-> Arg(config, "failing", FALSE),
     cleanliness              |-> Arg(config, "cleanliness", CleanOne),
     min_cleanliness          |-> min_cleanliness,
     failure_detected         |-> FALSE]

\* No Panel: the value of a deleted dict entry, and of unit when the driver
\* has constructed no Panel of its own.
NoPanel ==
    [PanelInit([panel_id |-> NoId, max_output |-> 0, fluctuation |-> 0,
                failure_rate |-> 0, current_degradation |-> 0,
                failure_progression_rate |-> 0, first_phase_degradation |-> 0,
                annual_degradation |-> 0])
     EXCEPT !.health = 0, !.cleanliness = 0, !.min_cleanliness = 0, !.days_to_replace = 0]

\* _time_increment called without its argument: hours takes its default, 1
time_increment_default(p, hours) == [p EXCEPT !.active_hours = @ + 1]

\* Panel._time_increment
time_increment(p, hours) == [p EXCEPT !.active_hours = @ + hours]

\* The hazard test with a hazard that is positive whatever failure_rate and
\* active_hours are: the draw alone decides
random_below_hazard_any(failure_rate, active_hours, below) == below

\* self.random.random() < 1 - (1 - failure_rate) ** active_hours
\* (panel.py:81). failure_rate is in units of 1/ChanceOne. The hazard is 0
\* when failure_rate = 0 or active_hours = 0 (x ** 0 = 1), 1 when
\* failure_rate = 1 and active_hours > 0, and strictly between otherwise;
\* below says whether the draw fell under a hazard strictly between 0 and 1.
random_below_hazard(failure_rate, active_hours, below) ==
    IF failure_rate = 0 \/ active_hours = 0 THEN FALSE
    ELSE IF failure_rate = ChanceOne THEN TRUE
    ELSE below

\* _update_health without line 88, the max(0.0, self.health)
update_health_unclamped(p, below) ==
    LET onset == /\ ~p.failing
                 /\ random_below_hazard(p.failure_rate, p.active_hours, below)
        failing == p.failing \/ onset
    IN  IF failing
        THEN [p EXCEPT !.failing = TRUE,
                       !.health = @ - p.failure_progression_rate * p.active_hours]
        ELSE p

\* _update_health that takes the onset draw of panel.py:81 in every call
\* and lets it decide failing, whatever failing was
update_health_redrawn(p, below) ==
    LET failing == random_below_hazard(p.failure_rate, p.active_hours, below)
    IN  IF failing
        THEN [p EXCEPT !.failing = TRUE,
                       !.health = Max(0, @ - p.failure_progression_rate * p.active_hours)]
        ELSE [p EXCEPT !.failing = FALSE]

\* _update_health with 'elif self.failing' for the 'if self.failing' of
\* panel.py:86: the call in which the failure starts takes no health
update_health_onset_spared(p, below) ==
    LET onset == /\ ~p.failing
                 /\ random_below_hazard(p.failure_rate, p.active_hours, below)
    IN  IF p.failing
        THEN [p EXCEPT !.health = Max(0, @ - p.failure_progression_rate * p.active_hours)]
        ELSE IF onset THEN [p EXCEPT !.failing = TRUE]
        ELSE p

\* Panel._update_health
update_health(p, below) ==
    LET onset == /\ ~p.failing
                 /\ random_below_hazard(p.failure_rate, p.active_hours, below)
        failing == p.failing \/ onset
    IN  IF failing
        THEN [p EXCEPT !.failing = TRUE,
                       !.health = Max(0, @ - p.failure_progression_rate * p.active_hours)]
        ELSE p

\* The local degradation_to_add of Panel._calculate_degradation
degradation_to_add(p) ==
    LET year_one_boundary == hours_in_year IN
    IF p.active_hours >= year_one_boundary
    THEN p.active_hours * p.annual_degradation
    ELSE IF p.active_hours + p.active_hours <= year_one_boundary
    THEN p.active_hours * p.first_phase_degradation
    ELSE LET hours_left_in_year_one == year_one_boundary - p.active_hours
             hours_after_year_one == p.active_hours - hours_left_in_year_one
         IN  hours_left_in_year_one * p.first_phase_degradation
             + hours_after_year_one * p.annual_degradation

\* Panel._calculate_degradation
calculate_degradation(p) ==
    [p EXCEPT !.current_degradation = Min(DegOne, @ + degradation_to_add(p))]

\* min(10.0, 1.0 / (self.health + 1e-6)) as a fraction <<num, den>>
instability_factor(health) ==
    IF HealthOne >= 10 * (health + HealthEps)
    THEN <<10, 1>>
    ELSE <<HealthOne, health + HealthEps>>

\* calculate_output without the early return of panel.py:180-182: a dead
\* Panel degrades and produces like a live one
calculate_output_unskipped(p, ideal_output, hours, below, position) ==
    LET p1 == time_increment(p, hours)
        p2 == update_health(p1, below)
        p3 == calculate_degradation(p2)
        amp == instability_factor(p3.health)
    IN  [p3 EXCEPT !.current_output =
            [ideal       |-> ideal_output,
             fluctuation |-> p3.fluctuation,
             amp_num     |-> amp[1],
             amp_den     |-> amp[2],
             position    |-> position,
             cleanliness |-> p3.cleanliness,
             degradation |-> p3.current_degradation]]

\* Panel.calculate_output: below and position are the two random draws.
calculate_output(p, ideal_output, hours, below, position) ==
    LET p1 == time_increment(p, hours)
        p2 == update_health(p1, below)
    IN  IF p2.health <= 0
        THEN [p2 EXCEPT !.current_output = ZeroOutput]
        ELSE LET p3 == calculate_degradation(p2)
                 amp == instability_factor(p3.health)
             IN  [p3 EXCEPT !.current_output =
                     [ideal       |-> ideal_output,
                      fluctuation |-> p3.fluctuation,
                      amp_num     |-> amp[1],
                      amp_den     |-> amp[2],
                      position    |-> position,
                      cleanliness |-> p3.cleanliness,
                      degradation |-> p3.current_degradation]]

\* Panel.calculate_dirt_acc: dirt_acc and variance in units of 1/SoilDen,
\* the product rounded down to a cleanliness unit.
SoilDen == 1000

\* calculate_dirt_acc that counts the hour of soiling as an active hour
calculate_dirt_acc_aging(p, dirt_acc, variance) ==
    LET remaining_potential == p.cleanliness - p.min_cleanliness
        cleanliness_lost == (remaining_potential * (dirt_acc + variance)) \div SoilDen
    IN  [p EXCEPT !.cleanliness = Max(@ - cleanliness_lost, p.min_cleanliness),
                  !.active_hours = @ + 1]

calculate_dirt_acc(p, dirt_acc, variance) ==
    LET remaining_potential == p.cleanliness - p.min_cleanliness
        cleanliness_lost == (remaining_potential * (dirt_acc + variance)) \div SoilDen
    IN  [p EXCEPT !.cleanliness = Max(@ - cleanliness_lost, p.min_cleanliness)]

\* math.exp, in units of 1/ExpOne, by its power series: term k is
\* term k-1 times x / k.
ExpOne == 10000

ExpTerms == 24

RECURSIVE exp_series(_, _, _, _)
exp_series(x, k, term, acc) ==
    IF k > ExpTerms \/ term = 0 THEN acc
    ELSE LET next == (term * x) \div (k * ExpOne)
         IN  exp_series(x, k + 1, next, acc + next)

exp(x) == exp_series(x, 1, ExpOne, ExpOne)

\* rain_amount is in units of 1/RainDen mm; the constants of Panel.clean
RainDen == 10

rain_threshold == 20

cementation_effect == 50

\* max_effect = 0.70 and effective_rate = 0.15, in hundredths
max_effect == 70

effective_rate == 15

\* rain_effectiveness = max_effect * (1 - exp(effective_rate * rain_amount)),
\* in hundredths
rain_effectiveness(rain_amount) ==
    LET x == (effective_rate * rain_amount * ExpOne) \div (100 * RainDen)
    IN  (max_effect * (ExpOne - exp(x))) \div ExpOne

\* clean without the manual-cleaning branch of panel.py:140-143
clean_rain_only(p, rain_amount) ==
    IF rain_amount < rain_threshold
    THEN [p EXCEPT !.cleanliness = Max(p.min_cleanliness, @ - cementation_effect)]
    ELSE LET dirt_to_remove == CleanOne - p.cleanliness
             cleanliness_gain == (dirt_to_remove * rain_effectiveness(rain_amount)) \div 100
         IN  [p EXCEPT !.cleanliness = Min(CleanOne, @ + cleanliness_gain)]

\* clean with the cementation effect added (+= for -= in panel.py:153)
clean_cementation_added(p, rain_amount) ==
    IF rain_amount = 0
    THEN [p EXCEPT !.cleanliness = CleanOne]
    ELSE IF rain_amount < rain_threshold
    THEN [p EXCEPT !.cleanliness = Max(p.min_cleanliness, @ + cementation_effect)]
    ELSE LET dirt_to_remove == CleanOne - p.cleanliness
             cleanliness_gain == (dirt_to_remove * rain_effectiveness(rain_amount)) \div 100
         IN  [p EXCEPT !.cleanliness = Min(CleanOne, @ + cleanliness_gain)]

\* Panel.clean
clean(p, rain_amount) ==
    IF rain_amount = 0
    THEN [p EXCEPT !.cleanliness = CleanOne]
    ELSE IF rain_amount < rain_threshold
    THEN [p EXCEPT !.cleanliness = Max(p.min_cleanliness, @ - cementation_effect)]
    ELSE LET dirt_to_remove == CleanOne - p.cleanliness
             cleanliness_gain == (dirt_to_remove * rain_effectiveness(rain_amount)) \div 100
         IN  [p EXCEPT !.cleanliness = Min(CleanOne, @ + cleanliness_gain)]

(***************************************************************************)
(* self.panels: dict[str, Panel] (farm.py:30), as CPython keeps it: an     *)
(* entry array in insertion order in which a popped entry leaves a hole,   *)
(* usable free slots, and a resize that compacts the array when an insert  *)
(* finds no free slot. replace_if_needed pops from and inserts into the    *)
(* dict it iterates over, so what its loop visits is decided here.         *)
(***************************************************************************)
DummyEntry == [me_key |-> NoId, me_value |-> NoPanel]

EmptyDict == [entries |-> <<>>, usable |-> 0]

IsLive(e) == e.me_key # NoId

dict_live(d) == {i \in DOMAIN d.entries : IsLive(d.entries[i])}

dict_keys(d) == {d.entries[i].me_key : i \in dict_live(d)}

ma_used(d) == Cardinality(dict_live(d))

dict_getitem(d, key) ==
    d.entries[CHOOSE i \in dict_live(d) : d.entries[i].me_key = key].me_value

dict_values(d) == {d.entries[i].me_value : i \in dict_live(d)}

\* PyDict_MINSIZE and USABLE_FRACTION
PyDict_MINSIZE == 8

usable_fraction(n) == (2 * n) \div 3

RECURSIVE power_of_two_above(_, _)
power_of_two_above(v, size) ==
    IF size > v THEN size ELSE power_of_two_above(v, 2 * size)

\* calculate_log2_keysize: 1 << bit_length(((minsize | 8) - 1) | 7)
keys_size(minsize) ==
    LET with_min == IF (minsize \div PyDict_MINSIZE) % 2 = 1
                    THEN minsize ELSE minsize + PyDict_MINSIZE
        low == with_min - 1
        filled == (low \div PyDict_MINSIZE) * PyDict_MINSIZE + (PyDict_MINSIZE - 1)
    IN  power_of_two_above(filled, 1)

\* replace_if_needed without the pop of farm.py:73: the dict is left as it is
dict_pop_kept(d, key) == d

\* dict.pop(key): the entry becomes a hole, the array keeps its length
dict_pop(d, key) ==
    [d EXCEPT !.entries =
        [i \in DOMAIN @ |-> IF @[i].me_key = key THEN DummyEntry ELSE @[i]]]

\* d[key] = value: an insert of a new key resizes first when no slot is
\* free (GROWTH_RATE = 3 * ma_used), dropping the holes.
dict_setitem(d, key, value) ==
    LET e == [me_key |-> key, me_value |-> value] IN
    IF key \in dict_keys(d)
    THEN [d EXCEPT !.entries =
            [i \in DOMAIN @ |-> IF @[i].me_key = key THEN e ELSE @[i]]]
    ELSE IF d.usable <= 0
    THEN LET live == SelectSeq(d.entries, IsLive)
         IN  [entries |-> Append(live, e),
              usable  |-> usable_fraction(keys_size(3 * Len(live))) - Len(live) - 1]
    ELSE [entries |-> Append(d.entries, e), usable |-> d.usable - 1]

\* iter(d.values()): di_used and len are the dict's size when it was made
dict_iter(d) == [di_used |-> ma_used(d), di_pos |-> 1, len |-> ma_used(d)]

RECURSIVE first_live_from(_, _)
first_live_from(entries, i) ==
    IF i > Len(entries) THEN 0
    ELSE IF IsLive(entries[i]) THEN i
    ELSE first_live_from(entries, i + 1)

\* dictiter_iternextvalue: what next() on the iterator does. index is the
\* place of the entry returned (0: none).
dict_next(d, it) ==
    LET i == first_live_from(d.entries, it.di_pos) IN
    IF it.di_used # ma_used(d)
    THEN [outcome |-> "RuntimeError", index |-> 0, it |-> it]
    ELSE IF i = 0
    THEN [outcome |-> "StopIteration", index |-> 0, it |-> it]
    ELSE IF it.len = 0
    THEN [outcome |-> "RuntimeError", index |-> 0, it |-> it]
    ELSE [outcome |-> "value", index |-> i,
          it |-> [it EXCEPT !.di_pos = i + 1, !.len = @ - 1]]

(***************************************************************************)
(* Farm                                                                    *)
(***************************************************************************)
\* The bounds of the model
NumFarms == 2

MaxIds == 6

MaxPanels == 2

MaxReplacementDays == 1

MaxRetries == 2

Farms == 1 .. NumFarms

\* The id space: AA000000 .. ZZ999999 in the code, MaxIds ids here
IdSpace == 1 .. MaxIds

\* random.choices of farm.py:49 and :51 draws any id of the id space. The
\* ids not yet registered are interchangeable (nothing in the program tells
\* one from another), so of those the model draws the least; of the
\* registered ids, the collisions, it draws every one.
Candidates(registered) ==
    LET free == IdSpace \ registered IN
    registered \cup {c \in free : \A o \in free : c <= o}

\* The panel_config a driver passes to Farm(...): the arguments of Panel
\* without defaults; panel_id = NoId says the dict has no "panel_id" key.
TemplateConfig ==
    [panel_id |-> NoId, max_output |-> 400, current_degradation |-> 0,
     fluctuation |-> 50, failure_rate |-> 1, failure_progression_rate |-> 50,
     annual_degradation |-> 5, first_phase_degradation |-> 20]

NoFarm ==
    [exists |-> FALSE, num_panels |-> 0, replacement_days |-> 0,
     panel_config |-> TemplateConfig, panels |-> EmptyDict]

Idle ==
    [pc |-> "idle", op |-> "none", gen_id |-> NoId, retries |-> 0, y |-> 0,
     it |-> dict_iter(EmptyDict), start_keys |-> {}, due |-> {}, visited |-> <<>>,
     hours |-> 0, dirt_acc |-> 0]

NoCall ==
    [op |-> "none", farm |-> 0, running |-> FALSE, raised |-> "none",
     panel_id |-> NoId, chance |-> 0, days_before |-> 0,
     start_keys |-> {}, due |-> {}, visited |-> <<>>, start_days |-> {},
     cleanliness_before |-> 0, health_before |-> 0, failing_before |-> FALSE,
     draws |-> <<>>, applied |-> <<>>,
     hours |-> 0, ideal_output |-> 0, returned_early |-> FALSE,
     degradation_to_add |-> 0, dirt_acc |-> 0, variance |-> 0, rain_amount |-> 0]

AllIdle == \A f \in Farms : call[f].pc = "idle"

\* start_replacement with chance >= 0.65 for chance > 0.65 (farm.py:61)
start_replacement_inclusive(replacement_days, panel, chance) ==
    IF panel.days_to_replace = -1
    THEN IF chance < 4
         THEN [panel EXCEPT !.days_to_replace = Max(replacement_days - 1, 0)]
         ELSE IF chance >= 65 /\ chance < 85
         THEN [panel EXCEPT !.days_to_replace = replacement_days + 1]
         ELSE IF chance >= 85
         THEN [panel EXCEPT !.days_to_replace = replacement_days + 2]
         ELSE panel
    ELSE panel

\* start_replacement without the test of farm.py:57
start_replacement_unguarded(replacement_days, panel, chance) ==
    IF chance < 4
    THEN [panel EXCEPT !.days_to_replace = Max(replacement_days - 1, 0)]
    ELSE IF chance > 65 /\ chance < 85
    THEN [panel EXCEPT !.days_to_replace = replacement_days + 1]
    ELSE IF chance >= 85
    THEN [panel EXCEPT !.days_to_replace = replacement_days + 2]
    ELSE panel

\* Farm.start_replacement; chance is random.random() in units of 1/ChanceOne
start_replacement(replacement_days, panel, chance) ==
    IF panel.days_to_replace = -1
    THEN IF chance < 4
         THEN [panel EXCEPT !.days_to_replace = Max(replacement_days - 1, 0)]
         ELSE IF chance > 65 /\ chance < 85
         THEN [panel EXCEPT !.days_to_replace = replacement_days + 1]
         ELSE IF chance >= 85
         THEN [panel EXCEPT !.days_to_replace = replacement_days + 2]
         ELSE panel
    ELSE panel

\* Farm._generate_panel once _generate_id has returned gen_id: the id goes
\* into the Farm's own panel_config, and Panel(**panel_config) is built
generate_panel_config(panel_config, gen_id) ==
    [panel_config EXCEPT !.panel_id = gen_id]

generate_panel(panel_config, gen_id) ==
    PanelInit(generate_panel_config(panel_config, gen_id))

\* self.panels[new_panel.panel_id] = new_panel (farm.py:41, farm.py:76)
store_panel(farm, gen_id) ==
    LET new_panel == generate_panel(farm.panel_config, gen_id) IN
    [farm EXCEPT !.panel_config = generate_panel_config(@, gen_id),
                 !.panels = dict_setitem(@, new_panel.panel_id, new_panel)]

(***************************************************************************)
(* Farm methods, step by step. One method runs at a time (the driver is a  *)
(* single thread); _generate_id is a loop that need not end, so a call is  *)
(* a sequence of steps: call[f].pc is where Farm f stands.                 *)
(***************************************************************************)
\* random.random() for start_replacement, in units of 1/ChanceOne: the two
\* sides of every threshold of farm.py:59-63
Chances == {3, 4, 65, 66, 84, 85}

\* Farm.__init__ up to the first candidate id of _generate_id (farm.py:49);
\* num_panels is drawn from sizes
FarmInit(f, sizes) ==
    /\ AllIdle
    /\ ~farms[f].exists
    /\ \E n \in sizes, rd \in 0 .. MaxReplacementDays,
          c \in Candidates(registered_ids) :
        /\ farms' = [farms EXCEPT ![f] =
                        [NoFarm EXCEPT !.exists = TRUE, !.num_panels = n,
                                       !.replacement_days = rd]]
        /\ call' = [call EXCEPT ![f] =
                        [Idle EXCEPT !.pc = "gen_test", !.op = "__init__", !.gen_id = c]]
    /\ last' = [NoCall EXCEPT !.op = "__init__", !.farm = f, !.running = TRUE]
    /\ UNCHANGED <<replay, unit, registered_ids, issued, calls>>

\* while gen_id in self.registered_ids: draw again (farm.py:50-51)
GenRetry(f) ==
    /\ call[f].pc = "gen_test"
    /\ call[f].gen_id \in registered_ids
    /\ \E c \in Candidates(registered_ids) :
        call' = [call EXCEPT ![f].gen_id = c,
                             ![f].retries = Min(@ + 1, MaxRetries + 1)]
    /\ UNCHANGED <<replay, unit, farms, registered_ids, issued, last, calls>>

\* _generate_id without its loop test: any candidate is returned
GenPassUntested(f) ==
    /\ call[f].pc = "gen_test"
    /\ call' = [call EXCEPT ![f].pc = "gen_add"]
    /\ UNCHANGED <<replay, unit, farms, registered_ids, issued, last, calls>>

\* the loop test fails: gen_id is not registered
GenPass(f) ==
    /\ call[f].pc = "gen_test"
    /\ call[f].gen_id \notin registered_ids
    /\ call' = [call EXCEPT ![f].pc = "gen_add"]
    /\ UNCHANGED <<replay, unit, farms, registered_ids, issued, last, calls>>

\* Farm.registered_ids.add(gen_id); return gen_id (farm.py:52-53), then
\* the Panel is built and stored by the caller
GenRegister(f) ==
    /\ call[f].pc = "gen_add"
    /\ registered_ids' = registered_ids \cup {call[f].gen_id}
    /\ issued' = Append(issued, call[f].gen_id)
    /\ farms' = [farms EXCEPT ![f] = store_panel(@, call[f].gen_id)]

\* ... in the loop of Farm.__init__, which goes on to the next Panel
GenAddInitMore(f) ==
    /\ GenRegister(f)
    /\ call[f].op = "__init__"
    /\ call[f].y + 1 < farms[f].num_panels
    /\ \E c \in Candidates(registered_ids') :
        call' = [call EXCEPT ![f].pc = "gen_test", ![f].gen_id = c,
                             ![f].retries = 0, ![f].y = @ + 1]
    /\ UNCHANGED <<replay, unit, last, calls>>

\* ... or was at its last Panel: Farm.__init__ returns
GenAddInitDone(f) ==
    /\ GenRegister(f)
    /\ call[f].op = "__init__"
    /\ call[f].y + 1 >= farms[f].num_panels
    /\ call' = [call EXCEPT ![f] = Idle]
    /\ last' = [last EXCEPT !.running = FALSE]
    /\ UNCHANGED <<replay, unit, calls>>

\* ... in replace_if_needed, which goes back to its for loop
GenAddReplace(f) ==
    /\ GenRegister(f)
    /\ call[f].op = "replace_if_needed"
    /\ call' = [call EXCEPT ![f].pc = "iter", ![f].retries = 0]
    /\ UNCHANGED <<replay, unit, last, calls>>

\* Farm.replace_if_needed: for panel in self.panels.values() makes the
\* iterator. start_keys and due record the members and those with
\* days_to_replace = 0 at this moment, start_days every member's
\* days_to_replace as pairs <<panel_id, days_to_replace>>.
ReplaceStart(f) ==
    /\ AllIdle
    /\ farms[f].exists
    /\ LET d == farms[f].panels
           due == {k \in dict_keys(d) : dict_getitem(d, k).days_to_replace = 0}
           days == {<<k, dict_getitem(d, k).days_to_replace>> : k \in dict_keys(d)}
       IN  /\ call' = [call EXCEPT ![f] =
                        [Idle EXCEPT !.pc = "iter", !.op = "replace_if_needed",
                                     !.it = dict_iter(d),
                                     !.start_keys = dict_keys(d), !.due = due]]
           /\ last' = [NoCall EXCEPT !.op = "replace_if_needed", !.farm = f,
                                     !.running = TRUE,
                                     !.start_keys = dict_keys(d), !.due = due,
                                     !.start_days = days]
    /\ UNCHANGED <<replay, unit, farms, registered_ids, issued, calls>>

\* the end of replace_if_needed: normally, or by the iterator's exception
ReplaceEnd(f, raised) ==
    /\ call' = [call EXCEPT ![f] = Idle]
    /\ last' = [last EXCEPT !.running = FALSE, !.raised = raised,
                            !.visited = call[f].visited]
    /\ UNCHANGED <<replay, unit, farms, registered_ids, issued, calls>>

IterRaise(f) ==
    /\ call[f].pc = "iter"
    /\ dict_next(farms[f].panels, call[f].it).outcome = "RuntimeError"
    /\ ReplaceEnd(f, "RuntimeError")

IterStop(f) ==
    /\ call[f].pc = "iter"
    /\ dict_next(farms[f].panels, call[f].it).outcome = "StopIteration"
    /\ ReplaceEnd(f, "none")

\* The days_to_replace = 0 branch with a registry that is pruned: the id of
\* the Panel that is popped is taken out of registered_ids
IterReplacePruning(f) ==
    /\ call[f].pc = "iter"
    /\ LET r == dict_next(farms[f].panels, call[f].it) IN
        /\ r.outcome = "value"
        /\ LET panel == farms[f].panels.entries[r.index].me_value IN
            /\ panel.days_to_replace = 0
            /\ farms' = [farms EXCEPT ![f].panels = dict_pop(@, panel.panel_id)]
            /\ \E c \in Candidates(registered_ids) :
                call' = [call EXCEPT ![f].pc = "gen_test", ![f].gen_id = c,
                                     ![f].retries = 0, ![f].it = r.it,
                                     ![f].visited = Append(@, panel.panel_id)]
    /\ registered_ids' =
        registered_ids \ {farms[f].panels.entries[
            dict_next(farms[f].panels, call[f].it).index].me_value.panel_id}
    /\ UNCHANGED <<replay, unit, issued, last, calls>>

\* the loop body on a panel with days_to_replace = 0, up to the first
\* candidate id of _generate_id
IterReplace(f) ==
    /\ call[f].pc = "iter"
    /\ LET r == dict_next(farms[f].panels, call[f].it) IN
        /\ r.outcome = "value"
        /\ LET panel == farms[f].panels.entries[r.index].me_value IN
            /\ panel.days_to_replace = 0
            /\ farms' = [farms EXCEPT ![f].panels = dict_pop(@, panel.panel_id)]
            /\ \E c \in Candidates(registered_ids) :
                call' = [call EXCEPT ![f].pc = "gen_test", ![f].gen_id = c,
                                     ![f].retries = 0, ![f].it = r.it,
                                     ![f].visited = Append(@, panel.panel_id)]
    /\ UNCHANGED <<replay, unit, registered_ids, issued, last, calls>>

\* the loop body on a panel with days_to_replace > 0
IterDecrement(f) ==
    /\ call[f].pc = "iter"
    /\ LET r == dict_next(farms[f].panels, call[f].it) IN
        /\ r.outcome = "value"
        /\ LET panel == farms[f].panels.entries[r.index].me_value IN
            /\ panel.days_to_replace > 0
            /\ farms' = [farms EXCEPT
                  ![f].panels.entries[r.index].me_value.days_to_replace = @ - 1]
            /\ call' = [call EXCEPT ![f].it = r.it,
                                    ![f].visited = Append(@, panel.panel_id)]
    /\ UNCHANGED <<replay, unit, registered_ids, issued, last, calls>>

\* the loop body on any other panel: neither branch is taken
IterPass(f) ==
    /\ call[f].pc = "iter"
    /\ LET r == dict_next(farms[f].panels, call[f].it) IN
        /\ r.outcome = "value"
        /\ LET panel == farms[f].panels.entries[r.index].me_value IN
            /\ panel.days_to_replace < 0
            /\ call' = [call EXCEPT ![f].it = r.it,
                                    ![f].visited = Append(@, panel.panel_id)]
    /\ UNCHANGED <<replay, unit, farms, registered_ids, issued, last, calls>>

\* Farm.start_replacement(panel) on a member of the Farm; random.random()
\* is drawn from chances
StartReplacement(f, chances) ==
    /\ AllIdle
    /\ farms[f].exists
    /\ \E k \in dict_keys(farms[f].panels), chance \in chances :
        LET panel == dict_getitem(farms[f].panels, k)
            after == start_replacement(farms[f].replacement_days, panel, chance)
        IN  /\ farms' = [farms EXCEPT ![f].panels = dict_setitem(@, k, after)]
            /\ last' = [NoCall EXCEPT !.op = "start_replacement", !.farm = f,
                                      !.panel_id = k, !.chance = chance,
                                      !.days_before = panel.days_to_replace]
    /\ UNCHANGED <<replay, unit, registered_ids, issued, call, calls>>

(***************************************************************************)
(* Panel methods called by the driver on its own Panel.                    *)
(***************************************************************************)
\* The bound on the number of Panel method calls in a run
MaxCalls == 3

\* hours, ideal_output and the draws of calculate_output
Hours == {20, 4380, 8760}

IdealOutputs == {0, 300}

Positions == {-1, 1}

\* dirt_acc (farm.py:86-87, never negative) and the Gaussian variance of
\* panel.py:129, in units of 1/SoilDen
DirtAccs == {0, 1, 5}

Variances == {-1, 0, 1}

\* rain_amount in units of 1/RainDen mm: manual cleaning, light rain up to
\* the threshold of panel.py:146, the threshold, rain above it
RainAmounts == {0, 10, 19, 20, 50}

\* The Panels a driver may construct: every argument in its range
UnitConfigs ==
    [panel_id                 : {MaxIds + 1},
     max_output               : {400},
     fluctuation              : {50},
     failure_rate             : {0, 1},
     failure_progression_rate : {0, 50},
     annual_degradation       : {5},
     first_phase_degradation  : {20},
     current_degradation      : {0, DegOne - 100000},
     active_hours             : {0, 8750},
     health                   : {HealthOne, 400000},
     failing                  : BOOLEAN,
     cleanliness              : {min_cleanliness, CleanOne}]

CalculateOutput ==
    /\ unit # NoPanel
    /\ calls < MaxCalls
    /\ \E hours \in Hours, ideal_output \in IdealOutputs,
          below \in BOOLEAN, position \in Positions :
        LET after == calculate_output(unit, ideal_output, hours, below, position)
            early == after.health <= 0
        IN  /\ unit' = after
            /\ last' = [NoCall EXCEPT
                          !.op = "calculate_output", !.hours = hours,
                          !.ideal_output = ideal_output,
                          !.health_before = unit.health,
                          !.failing_before = unit.failing,
                          !.returned_early = early,
                          !.degradation_to_add =
                              IF early THEN 0 ELSE degradation_to_add(after)]
    /\ calls' = calls + 1
    /\ UNCHANGED <<farmVars, replay>>

CalculateDirtAcc ==
    /\ unit # NoPanel
    /\ calls < MaxCalls
    /\ \E dirt_acc \in DirtAccs, variance \in Variances :
        /\ unit' = calculate_dirt_acc(unit, dirt_acc, variance)
        /\ last' = [NoCall EXCEPT !.op = "calculate_dirt_acc",
                                  !.dirt_acc = dirt_acc, !.variance = variance,
                                  !.cleanliness_before = unit.cleanliness]
    /\ calls' = calls + 1
    /\ UNCHANGED <<farmVars, replay>>

Clean ==
    /\ unit # NoPanel
    /\ calls < MaxCalls
    /\ \E rain_amount \in RainAmounts :
        /\ unit' = clean(unit, rain_amount)
        /\ last' = [NoCall EXCEPT !.op = "clean", !.rain_amount = rain_amount,
                                  !.cleanliness_before = unit.cleanliness]
    /\ calls' = calls + 1
    /\ UNCHANGED <<farmVars, replay>>

(***************************************************************************)
(* Farm methods as they act on one Panel object. start_replacement takes   *)
(* the Panel as its argument and writes only panel.days_to_replace; the    *)
(* loop body of replace_if_needed (farm.py:71-81) pops a Panel whose       *)
(* days_to_replace is 0 from the dict, which leaves the object as it is,   *)
(* and decrements a positive days_to_replace.                              *)
(***************************************************************************)
replace_body(panel) ==
    IF panel.days_to_replace = 0 THEN panel
    ELSE IF panel.days_to_replace > 0
    THEN [panel EXCEPT !.days_to_replace = @ - 1]
    ELSE panel

StartReplacementUnit ==
    /\ unit # NoPanel
    /\ calls < MaxCalls
    /\ \E replacement_days \in 0 .. MaxReplacementDays, chance \in Chances :
        /\ unit' = start_replacement(replacement_days, unit, chance)
        /\ last' = [NoCall EXCEPT !.op = "start_replacement",
                                  !.panel_id = unit.panel_id, !.chance = chance,
                                  !.days_before = unit.days_to_replace]
    /\ calls' = calls + 1
    /\ UNCHANGED <<farmVars, replay>>

ReplaceIfNeededUnit ==
    /\ unit # NoPanel
    /\ calls < MaxCalls
    /\ unit' = replace_body(unit)
    /\ last' = [NoCall EXCEPT !.op = "replace_if_needed",
                              !.panel_id = unit.panel_id,
                              !.days_before = unit.days_to_replace]
    /\ calls' = calls + 1
    /\ UNCHANGED <<farmVars, replay>>

(***************************************************************************)
(* Farm.calculate_dirt_acc(hours), step by step: one draw per hour, then   *)
(* the loop over self.panels.values(). last.draws is the dirt_acc of every *)
(* hour so far, last.applied the calls panel.calculate_dirt_acc(dirt_acc)  *)
(* of every hour so far, as pairs <<panel_id, dirt_acc>> in call order.    *)
(***************************************************************************)
\* The bounds on hours and on the number of Farm.calculate_dirt_acc calls
MaxDirtHours == 2

MaxDirtCalls == 1

\* random.gauss(self.dirt_mu, self.dirt_sigma) in units of 1/SoilDen
FarmDraws == {-1, 0, 1, 5}

\* farm.py:87 left out: the draw is passed on as it is
clamp_dirt_acc_none(draw) == draw

\* dirt_acc = max(0.0, dirt_acc)
clamp_dirt_acc(draw) == Max(0, draw)

DirtStart(f) ==
    /\ AllIdle
    /\ farms[f].exists
    /\ calls < MaxDirtCalls
    /\ \E hours \in 0 .. MaxDirtHours :
        /\ call' = [call EXCEPT ![f] =
                     [Idle EXCEPT !.pc = "dirt_hour", !.op = "calculate_dirt_acc",
                                  !.hours = hours]]
        /\ last' = [NoCall EXCEPT !.op = "calculate_dirt_acc", !.farm = f,
                                  !.running = TRUE, !.hours = hours,
                                  !.start_keys = dict_keys(farms[f].panels)]
    /\ calls' = calls + 1
    /\ UNCHANGED <<replay, unit, farms, registered_ids, issued>>

\* for _ in range(hours): the draw of this hour, and the iterator of the
\* inner loop
DirtDraw(f) ==
    /\ call[f].pc = "dirt_hour"
    /\ call[f].y < call[f].hours
    /\ \E draw \in FarmDraws :
        LET dirt_acc == clamp_dirt_acc(draw) IN
        /\ call' = [call EXCEPT ![f].pc = "dirt_iter", ![f].dirt_acc = dirt_acc,
                                ![f].it = dict_iter(farms[f].panels)]
        /\ last' = [last EXCEPT !.draws = Append(@, dirt_acc),
                                !.applied = Append(@, <<>>)]
    /\ UNCHANGED <<replay, unit, farms, registered_ids, issued, calls>>

\* range(hours) is exhausted: the method returns
DirtDone(f) ==
    /\ call[f].pc = "dirt_hour"
    /\ call[f].y >= call[f].hours
    /\ call' = [call EXCEPT ![f] = Idle]
    /\ last' = [last EXCEPT !.running = FALSE]
    /\ UNCHANGED <<replay, unit, farms, registered_ids, issued, calls>>

\* panel.calculate_dirt_acc(dirt_acc) on the next Panel of the inner loop
DirtApply(f) ==
    /\ call[f].pc = "dirt_iter"
    /\ LET r == dict_next(farms[f].panels, call[f].it) IN
        /\ r.outcome = "value"
        /\ LET panel == farms[f].panels.entries[r.index].me_value IN
            \E variance \in Variances :
                /\ farms' = [farms EXCEPT ![f].panels.entries[r.index].me_value =
                                calculate_dirt_acc(panel, call[f].dirt_acc, variance)]
                /\ call' = [call EXCEPT ![f].it = r.it]
                /\ last' = [last EXCEPT !.applied[Len(last.applied)] =
                                Append(@, <<panel.panel_id, call[f].dirt_acc>>)]
    /\ UNCHANGED <<replay, unit, registered_ids, issued, calls>>

\* the inner loop is exhausted: on to the next hour
DirtHourEnd(f) ==
    /\ call[f].pc = "dirt_iter"
    /\ dict_next(farms[f].panels, call[f].it).outcome = "StopIteration"
    /\ call' = [call EXCEPT ![f].pc = "dirt_hour", ![f].y = @ + 1]
    /\ UNCHANGED <<replay, unit, farms, registered_ids, issued, last, calls>>

(***************************************************************************)
(* self.random (panel.py:44): the module random, whose hidden generator    *)
(* every unseeded Panel and every Farm draws from, or a random.Random of   *)
(* the Panel's own. A generator is its state and the spare value gauss     *)
(* keeps (gauss_next, <<>> for None). The state space is RngModulus states *)
(* stepped by a full-period congruence; random() is state / RngModulus.    *)
(***************************************************************************)
RngModulus == 8

\* random_seed of Panel.__init__: None, or an int
NoSeed == -1

Seeds == 0 .. 2

\* random.Random(seed): the state is a function of the seed, no spare value
rng_seed(seed) == [state |-> (3 * seed + 1) % RngModulus, gauss_next |-> <<>>]

rng_step(state) == (5 * state + 3) % RngModulus

\* random(): the value, in units of 1/RngModulus, and the generator after
rng_random(g) == [value |-> g.state, gen |-> [g EXCEPT !.state = rng_step(@)]]

\* gauss(0.0, 0.0005), in units of 1/SoilDen and rounded to a unit: the
\* spare value if there is one; else two random() draws give an angle
\* and a radius, the cosine part is returned and the sine part kept.
rng_gauss(g) ==
    IF g.gauss_next # <<>>
    THEN [value |-> g.gauss_next[1], gen |-> [g EXCEPT !.gauss_next = <<>>]]
    ELSE LET r1 == rng_random(g)
             r2 == rng_random(r1.gen)
             a == r1.value
             radius == IF 2 * r2.value >= RngModulus THEN 1 ELSE 0
             cos == IF 4 * a = RngModulus \/ 4 * a = 3 * RngModulus THEN 0
                    ELSE IF 4 * a < RngModulus \/ 4 * a > 3 * RngModulus THEN 1
                    ELSE -1
             sin == IF a = 0 \/ 2 * a = RngModulus THEN 0
                    ELSE IF 2 * a < RngModulus THEN 1
                    ELSE -1
         IN  [value |-> cos * radius,
              gen   |-> [state |-> r2.gen.state, gauss_next |-> <<sin * radius>>]]

\* self.random = random with no thought for random_seed
panel_random_shared(random_seed) == [private |-> FALSE, gen |-> rng_seed(0)]

\* self.random = random if random_seed is None else random.Random(random_seed)
\* gen is the Panel's own generator; a Panel that is not private draws from
\* the module's.
panel_random(random_seed) ==
    IF random_seed = NoSeed
    THEN [private |-> FALSE, gen |-> rng_seed(0)]
    ELSE [private |-> TRUE, gen |-> rng_seed(random_seed)]

\* 1 - (1 - failure_rate) ** active_hours of panel.py:81, in units of
\* 1/HazardOne, the power by squaring
HazardOne == 10000

RECURSIVE fixed_pow(_, _)
fixed_pow(base, n) ==
    IF n = 0 THEN HazardOne
    ELSE LET half == fixed_pow(base, n \div 2)
             square == (half * half) \div HazardOne
         IN  IF n % 2 = 0 THEN square ELSE (square * base) \div HazardOne

hazard(failure_rate, active_hours) ==
    HazardOne
    - fixed_pow(((ChanceOne - failure_rate) * HazardOne) \div ChanceOne, active_hours)

\* Panel.calculate_output with its draws taken from generator g: random()
\* for the onset only when the Panel is not failing (panel.py:80-81),
\* uniform() only when the Panel is alive (panel.py:180-189)
calculate_output_drawn(p, g, ideal_output, hours) ==
    LET p1 == time_increment(p, hours)
        r1 == IF p1.failing THEN [value |-> 0, gen |-> g] ELSE rng_random(g)
        below == r1.value * HazardOne
                   < hazard(p1.failure_rate, p1.active_hours) * RngModulus
        p2 == update_health(p1, below)
        r2 == IF p2.health <= 0 THEN [value |-> 0, gen |-> r1.gen]
              ELSE rng_random(r1.gen)
        position == IF 2 * r2.value < RngModulus THEN -1 ELSE 1
    IN  [panel |-> calculate_output(p, ideal_output, hours, below, position),
         gen   |-> r2.gen]

\* Panel.calculate_dirt_acc with its variance drawn from generator g
calculate_dirt_acc_drawn(p, g, dirt_acc) ==
    LET r == rng_gauss(g)
    IN  [panel |-> calculate_dirt_acc(p, dirt_acc, r.value), gen |-> r.gen]

(***************************************************************************)
(* Two Panels constructed with the same arguments and the same             *)
(* random_seed, and given the same calls: the first Panel takes a call,    *)
(* then the second takes the same call, and other objects draw from the    *)
(* module's generator at any moment.                                       *)
(***************************************************************************)
\* The bound on the number of calls each of the two Panels is given
MaxReplayCalls == 3

NoPending ==
    [op |-> "none", ideal_output |-> 0, hours |-> 0, dirt_acc |-> 0, rain_amount |-> 0]

ReplayCalls ==
    {[NoPending EXCEPT !.op = "calculate_output", !.ideal_output = 300, !.hours = h] :
        h \in {1, 20, 8760}}
    \cup {[NoPending EXCEPT !.op = "calculate_dirt_acc", !.dirt_acc = d] : d \in {0, 5}}
    \cup {[NoPending EXCEPT !.op = "clean", !.rain_amount = r] : r \in {0, 10}}

ReplayConfigs ==
    [panel_id                 : {MaxIds + 1},
     max_output               : {400},
     fluctuation              : {50},
     failure_rate             : {1},
     failure_progression_rate : {50},
     annual_degradation       : {5},
     first_phase_degradation  : {20},
     current_degradation      : {0},
     health                   : {HealthOne, 400000}]

\* Panel(random_seed=..., **config)
SeededPanel(config, random_seed) ==
    [panel |-> PanelInit(config), random |-> panel_random(random_seed)]

NoReplay ==
    [a |-> [panel |-> NoPanel, random |-> panel_random(NoSeed)],
     b |-> [panel |-> NoPanel, random |-> panel_random(NoSeed)],
     shared |-> rng_seed(0), pending |-> NoPending, n |-> 0, interleaved |-> FALSE]

\* One call c on the Panel t, which draws from its own generator or from
\* the module's: the Panel and the module's generator after the call
apply_call(t, shared, c) ==
    LET g == IF t.random.private THEN t.random.gen ELSE shared
        r == IF c.op = "calculate_output"
             THEN calculate_output_drawn(t.panel, g, c.ideal_output, c.hours)
             ELSE IF c.op = "calculate_dirt_acc"
             THEN calculate_dirt_acc_drawn(t.panel, g, c.dirt_acc)
             ELSE [panel |-> clean(t.panel, c.rain_amount), gen |-> g]
    IN  [twin   |-> [panel  |-> r.panel,
                     random |-> IF t.random.private
                                THEN [t.random EXCEPT !.gen = r.gen]
                                ELSE t.random],
         shared |-> IF t.random.private THEN shared ELSE r.gen]

\* the driver gives the first Panel its next call
ReplayFirst ==
    /\ replay.pending.op = "none"
    /\ replay.n < MaxReplayCalls
    /\ \E c \in ReplayCalls :
        LET r == apply_call(replay.a, replay.shared, c) IN
        replay' = [replay EXCEPT !.a = r.twin, !.shared = r.shared, !.pending = c]
    /\ UNCHANGED <<unit, farmVars, last, calls>>

\* ... and the second Panel the same call
ReplaySecond ==
    /\ replay.pending.op # "none"
    /\ LET r == apply_call(replay.b, replay.shared, replay.pending) IN
        replay' = [replay EXCEPT !.b = r.twin, !.shared = r.shared,
                                 !.pending = NoPending, !.n = @ + 1]
    /\ UNCHANGED <<unit, farmVars, last, calls>>

\* another object draws from the module's generator: random.random() of
\* Farm.start_replacement, or of a Panel constructed without a seed
SharedDraw ==
    /\ replay.a.panel # NoPanel
    /\ replay' = [replay EXCEPT !.shared = rng_random(@).gen,
                                !.interleaved = @ \/ replay.pending.op # "none"]
    /\ UNCHANGED <<unit, farmVars, last, calls>>

(***************************************************************************)
(* Specifications                                                          *)
(***************************************************************************)
InitFarms ==
    /\ farms = [f \in Farms |-> NoFarm]
    /\ registered_ids = {}
    /\ issued = <<>>
    /\ call = [f \in Farms |-> Idle]
    /\ last = NoCall
    /\ calls = 0

\* The process after the class definitions: no Farm, no Panel
Init ==
    /\ unit = NoPanel
    /\ InitFarms
    /\ replay = NoReplay

\* ... and after the driver has constructed a Panel of its own
InitUnit ==
    /\ unit \in {PanelInit(c) : c \in UnitConfigs}
    /\ InitFarms
    /\ replay = NoReplay

\* What the driver does with Farm f
FarmCall(f, sizes, chances) ==
    \/ FarmInit(f, sizes)
    \/ GenRetry(f)
    \/ GenPass(f)
    \/ GenAddInitMore(f)
    \/ GenAddInitDone(f)
    \/ GenAddReplace(f)
    \/ ReplaceStart(f)
    \/ IterRaise(f)
    \/ IterStop(f)
    \/ IterReplace(f)
    \/ IterDecrement(f)
    \/ IterPass(f)
    \/ StartReplacement(f, chances)

\* One Farm: construction, replacement scheduling and replacement
Next == FarmCall(1, 1 .. MaxPanels, Chances)

Spec == Init /\ [][Next]_vars

\* Two Farms of one process, which share Farm.registered_ids: the second
\* Farm is the smallest, and replacements are scheduled by one draw of
\* the branch that sets a day and one of the branch that sets a delay
SharedSizes == {1}

SharedChances == {3, 66}

NextShared ==
    \/ FarmCall(1, 1 .. MaxPanels, SharedChances)
    \/ FarmCall(2, SharedSizes, SharedChances)

SpecShared == Init /\ [][NextShared]_vars

\* Farm.__init__ called on a thread of its own: it starts whatever the other
\* Farm's thread is doing. Nothing in farm.py takes a lock, and the
\* thread may be switched out between the loop test of farm.py:50 and
\* the add of farm.py:52.
FarmInitThread(f, sizes) ==
    /\ call[f].pc = "idle"
    /\ ~farms[f].exists
    /\ \E n \in sizes, rd \in 0 .. MaxReplacementDays,
          c \in Candidates(registered_ids) :
        /\ farms' = [farms EXCEPT ![f] =
                        [NoFarm EXCEPT !.exists = TRUE, !.num_panels = n,
                                       !.replacement_days = rd]]
        /\ call' = [call EXCEPT ![f] =
                        [Idle EXCEPT !.pc = "gen_test", !.op = "__init__", !.gen_id = c]]
    /\ last' = [NoCall EXCEPT !.op = "__init__", !.farm = f, !.running = TRUE]
    /\ UNCHANGED <<replay, unit, registered_ids, issued, calls>>

\* The steps of one thread that constructs Farm f
FarmThread(f, sizes) ==
    \/ FarmInitThread(f, sizes)
    \/ GenRetry(f)
    \/ GenPass(f)
    \/ GenAddInitMore(f)
    \/ GenAddInitDone(f)

\* Two threads of one process, each constructing a Farm, in any interleaving
NextRace ==
    \/ FarmThread(1, 1 .. MaxPanels)
    \/ FarmThread(2, 1 .. MaxPanels)

SpecRace == Init /\ [][NextRace]_vars

\* The process after two Panels were constructed with one random_seed and
\* one set of arguments; the module's generator is in any state
InitReplay ==
    /\ unit = NoPanel
    /\ InitFarms
    /\ \E config \in ReplayConfigs, random_seed \in Seeds, s \in 0 .. RngModulus - 1 :
        replay = [NoReplay EXCEPT !.a = SeededPanel(config, random_seed),
                                  !.b = SeededPanel(config, random_seed),
                                  !.shared = [state |-> s, gauss_next |-> <<>>]]

\* Two seeded Panels replaying one sequence of calls
NextReplay == ReplayFirst \/ ReplaySecond \/ SharedDraw

SpecReplay == InitReplay /\ [][NextReplay]_vars

(***************************************************************************)
(* Panel methods called by the driver on a member of a Farm:               *)
(* farm.panels[k].calculate_output(...), farm.panels[k].clean(...).        *)
(***************************************************************************)
\* The bound on the number of such calls in a run
MaxFrameCalls == 2

FrameHours == {20, 8760}

MemberCalculateOutput(f) ==
    /\ AllIdle
    /\ farms[f].exists
    /\ calls < MaxFrameCalls
    /\ \E k \in dict_keys(farms[f].panels), hours \in FrameHours,
          below \in BOOLEAN, position \in Positions :
        LET panel == dict_getitem(farms[f].panels, k)
            after == calculate_output(panel, 300, hours, below, position)
        IN  /\ farms' = [farms EXCEPT ![f].panels = dict_setitem(@, k, after)]
            /\ last' = [NoCall EXCEPT !.op = "calculate_output", !.farm = f,
                                      !.panel_id = k, !.hours = hours,
                                      !.ideal_output = 300,
                                      !.health_before = panel.health,
                                      !.failing_before = panel.failing,
                                      !.returned_early = after.health <= 0]
    /\ calls' = calls + 1
    /\ UNCHANGED <<replay, unit, registered_ids, issued, call>>

MemberClean(f) ==
    /\ AllIdle
    /\ farms[f].exists
    /\ calls < MaxFrameCalls
    /\ \E k \in dict_keys(farms[f].panels), rain_amount \in RainAmounts :
        LET panel == dict_getitem(farms[f].panels, k) IN
        /\ farms' = [farms EXCEPT ![f].panels =
                        dict_setitem(@, k, clean(panel, rain_amount))]
        /\ last' = [NoCall EXCEPT !.op = "clean", !.farm = f, !.panel_id = k,
                                  !.rain_amount = rain_amount,
                                  !.cleanliness_before = panel.cleanliness]
    /\ calls' = calls + 1
    /\ UNCHANGED <<replay, unit, registered_ids, issued, call>>

\* One Farm: construction, start_replacement, calculate_dirt_acc, and
\* calculate_output and clean on its members
NextFrame ==
    \/ FarmInit(1, 1 .. MaxPanels)
    \/ GenRetry(1)
    \/ GenPass(1)
    \/ GenAddInitMore(1)
    \/ GenAddInitDone(1)
    \/ StartReplacement(1, SharedChances)
    \/ DirtStart(1)
    \/ DirtDraw(1)
    \/ DirtDone(1)
    \/ DirtApply(1)
    \/ DirtHourEnd(1)
    \/ MemberCalculateOutput(1)
    \/ MemberClean(1)

SpecFrame == Init /\ [][NextFrame]_vars

\* One Panel under calculate_output only
NextStep == CalculateOutput

SpecStep == InitUnit /\ [][NextStep]_vars

\* One Panel under soiling and cleaning only
NextSoil == CalculateDirtAcc \/ Clean

SpecSoil == InitUnit /\ [][NextSoil]_vars

\* One Panel under every operation that takes a Panel, MaxLifeCalls calls
MaxLifeCalls == 2

NextLife ==
    \/ calls < MaxLifeCalls /\ CalculateOutput
    \/ calls < MaxLifeCalls /\ CalculateDirtAcc
    \/ calls < MaxLifeCalls /\ Clean
    \/ calls < MaxLifeCalls /\ StartReplacementUnit
    \/ calls < MaxLifeCalls /\ ReplaceIfNeededUnit

SpecLife == InitUnit /\ [][NextLife]_vars

\* One Farm: construction, replacement, and soiling of its members
NextDirt ==
    \/ FarmCall(1, 1 .. MaxPanels, SharedChances)
    \/ DirtStart(1)
    \/ DirtDraw(1)
    \/ DirtDone(1)
    \/ DirtApply(1)
    \/ DirtHourEnd(1)

SpecDirt == Init /\ [][NextDirt]_vars

(***************************************************************************)
(* Claims on one Panel                                                     *)
(***************************************************************************)
\* active_hours before the last calculate_output call
HoursBefore == unit.active_hours - last.hours

\* the last call was a calculate_output that went on to _calculate_degradation
Degraded == last.op = "calculate_output" /\ ~last.returned_early

\* C1: after any sequence of calculate_output calls on a Panel constructed
\* in range with non-negative rates, 0 <= health <= 1,
\* 0 <= current_degradation <= 1 and min_cleanliness <= cleanliness <= 1.
C1_StepOutputKeepsRanges ==
    /\ 0 <= unit.health /\ unit.health <= HealthOne
    /\ 0 <= unit.current_degradation /\ unit.current_degradation <= DegOne
    /\ unit.min_cleanliness <= unit.cleanliness /\ unit.cleanliness <= CleanOne

\* Both clamps have acted: current_degradation was held at 1.0 in an
\* earlier call and health at 0.0 in the last one.
C1_Witness ==
    /\ last.op = "calculate_output"
    /\ last.returned_early
    /\ unit.failing
    /\ unit.health = 0
    /\ unit.current_degradation = DegOne
    /\ unit.failure_progression_rate * unit.active_hours > HealthOne

\* C2: a calculate_output call that starts before hour 8760 and ends after
\* it adds (8760 - a) * first_phase_degradation
\* + (a + hours - 8760) * annual_degradation to current_degradation, a being
\* active_hours before the call.
C2_BoundarySplit ==
    (Degraded /\ HoursBefore < hours_in_year
              /\ HoursBefore + last.hours > hours_in_year)
    => last.degradation_to_add =
          (hours_in_year - HoursBefore) * unit.first_phase_degradation
          + (HoursBefore + last.hours - hours_in_year) * unit.annual_degradation

\* C3: a calculate_output call that does not straddle hour 8760 adds
\* hours * rate to current_degradation, hours being the argument of the
\* call: the annual rate from hour 8760 on, the first-phase rate before.
C3_StepHoursTimesRate ==
    /\ (Degraded /\ HoursBefore >= hours_in_year)
       => last.degradation_to_add = last.hours * unit.annual_degradation
    /\ (Degraded /\ HoursBefore + last.hours <= hours_in_year)
       => last.degradation_to_add = last.hours * unit.first_phase_degradation

\* C4: after any sequence of calculate_dirt_acc and clean calls,
\* min_cleanliness <= cleanliness <= 1.
C4_CleanlinessInRange ==
    /\ unit.min_cleanliness <= unit.cleanliness
    /\ unit.cleanliness <= CleanOne

(***************************************************************************)
(* Claims on Farms                                                         *)
(***************************************************************************)
\* the last call was a replace_if_needed, and it has ended
Replaced == last.op = "replace_if_needed" /\ ~last.running

LastPanels == farms[last.farm].panels

\* a Panel as Panel.__init__ leaves it
Zeroed(panel) ==
    /\ panel.active_hours = 0
    /\ panel.health = HealthOne
    /\ panel.cleanliness = CleanOne
    /\ panel.days_to_replace = -1

Count(seq, x) == Cardinality({i \in DOMAIN seq : seq[i] = x})

\* C5: replace_if_needed on a Farm with a member whose days_to_replace is 0
\* removes that member's id from panels and inserts one new Panel for it,
\* zeroed, under an id first issued in this call; no retired id is a key
\* of panels again.
C5_DueMembersReplaced ==
    /\ Replaced =>
        /\ last.due \cap dict_keys(LastPanels) = {}
        /\ Cardinality(dict_keys(LastPanels) \ last.start_keys)
             = Cardinality(last.due)
        /\ \A k \in dict_keys(LastPanels) \ last.start_keys :
              Zeroed(dict_getitem(LastPanels, k))
    /\ \A f \in Farms : call[f].pc = "idle" =>
          \A i \in DOMAIN issued :
             issued[i] \in dict_keys(farms[f].panels)
             => \A j \in DOMAIN issued : issued[j] = issued[i] => j = i

\* C6: replace_if_needed always returns normally, having handled every
\* Panel that was a member when it was called exactly once.
C6_ReplaceCompletes ==
    Replaced =>
        /\ last.raised = "none"
        /\ \A k \in last.start_keys : Count(last.visited, k) = 1

\* C7: _generate_id never returns an id that is in registered_ids and adds
\* the id it returns, so the ids issued to all Farms of the process are
\* pairwise distinct.
C7_IdsDistinct ==
    /\ \A i, j \in DOMAIN issued : issued[i] = issued[j] => i = j
    /\ registered_ids = {issued[i] : i \in DOMAIN issued}
    /\ \A f \in Farms : call[f].pc = "gen_add" => call[f].gen_id \notin registered_ids

\* Both Farms hold Panels, and a _generate_id call that drew a registered
\* id and drew again is about to return an unregistered one.
C7_Witness ==
    /\ \A f \in Farms : farms[f].exists /\ dict_keys(farms[f].panels) # {}
    /\ Len(issued) >= 3
    /\ \E f \in Farms : /\ call[f].pc = "gen_add"
                        /\ call[f].retries >= 1
                        /\ call[f].op = "replace_if_needed"

\* C8: _generate_id terminates: with every id of the id space registered
\* it gives up after a bounded number of retries (MaxRetries here) and
\* reports that the id space is exhausted.
C8_GenerateIdGivesUp ==
    \A f \in Farms :
        (call[f].pc = "gen_test" /\ registered_ids = IdSpace)
        => call[f].retries <= MaxRetries

\* the Panel start_replacement was last called on
LastPanel == dict_getitem(LastPanels, last.panel_id)

\* C9: start_replacement on a Panel with days_to_replace = -1 sets it to
\* max(replacement_days - 1, 0) when chance < 0.04, to replacement_days + 1
\* when 0.65 < chance < 0.85, to replacement_days + 2 when chance >= 0.85,
\* and leaves it at -1 when 0.04 <= chance <= 0.65.
C9_ScheduleByChance ==
    (last.op = "start_replacement" /\ last.days_before = -1) =>
        LET days == LastPanel.days_to_replace
            rd == farms[last.farm].replacement_days
        IN  /\ last.chance < 4 => days = Max(rd - 1, 0)
            /\ (last.chance > 65 /\ last.chance < 85) => days = rd + 1
            /\ last.chance >= 85 => days = rd + 2
            /\ (last.chance >= 4 /\ last.chance <= 65) => days = -1

\* start_replacement has scheduled an unscheduled Panel by the middle branch
C9_Witness ==
    /\ last.op = "start_replacement"
    /\ last.days_before = -1
    /\ last.chance = 66
    /\ LastPanel.days_to_replace = farms[last.farm].replacement_days + 1

\* C10: start_replacement on a Panel whose days_to_replace is not -1
\* changes nothing: not the Panel, not the Farm, not registered_ids.
C10_ScheduledUntouched ==
    [][(last'.op = "start_replacement" /\ last'.days_before # -1)
       => (farms' = farms /\ unit' = unit /\ registered_ids' = registered_ids
           /\ issued' = issued /\ call' = call)]_vars

\* start_replacement was called on a Panel already due, with a draw that
\* would have set a delay
C10_Witness ==
    /\ last.op = "start_replacement"
    /\ last.days_before = 0
    /\ last.chance >= 85
    /\ LastPanel.days_to_replace = 0

\* C11: a replace_if_needed call decrements by one the days_to_replace of
\* every member that had it positive and keeps that member, removes every
\* member that had it 0, and leaves every member that had it -1 a member
\* with days_to_replace = -1.
C11_CountdownByOne ==
    Replaced =>
        \A sd \in last.start_days :
            LET k == sd[1]
                days == sd[2]
            IN  /\ days > 0 => /\ k \in dict_keys(LastPanels)
                               /\ dict_getitem(LastPanels, k).days_to_replace = days - 1
                /\ days = 0 => k \notin dict_keys(LastPanels)
                /\ days < 0 => /\ k \in dict_keys(LastPanels)
                               /\ dict_getitem(LastPanels, k).days_to_replace = -1

(***************************************************************************)
(* Claims on the life of one Panel                                         *)
(***************************************************************************)
\* C12: once failing is true it stays true under calculate_output,
\* calculate_dirt_acc, clean, start_replacement and replace_if_needed.
C12_FailingStays ==
    [][unit.failing => unit'.failing]_vars

\* A failing Panel has been scheduled and then counted down by one day
C12_Witness ==
    /\ unit.failing
    /\ last.op = "replace_if_needed"
    /\ last.days_before > 0
    /\ unit.days_to_replace = last.days_before - 1

\* C13: a calculate_output call adds exactly its hours to active_hours,
\* also when it returns early on a dead Panel, and no other call changes
\* active_hours.
C13_HoursAdded ==
    [][IF last'.op = "calculate_output"
       THEN unit'.active_hours = unit.active_hours + last'.hours
       ELSE unit'.active_hours = unit.active_hours]_vars

\* A call of 8760 hours on a new failing Panel brought health to 0.0,
\* returned early, and the hours are counted
C13_Witness ==
    /\ last.op = "calculate_output"
    /\ last.returned_early
    /\ last.hours = hours_in_year
    /\ unit.health = 0
    /\ unit.active_hours = hours_in_year

\* C14: clean(0.0) sets cleanliness to exactly 1.0 from every state of the
\* Panel and changes nothing else.
C14_ManualCleanRestores ==
    [][(last'.op = "clean" /\ last'.rain_amount = 0)
       => unit' = [unit EXCEPT !.cleanliness = CleanOne]]_vars

\* clean(0.0) has restored a Panel whose cleanliness was below
\* min_cleanliness
C14_Witness ==
    /\ last.op = "clean"
    /\ last.rain_amount = 0
    /\ last.cleanliness_before < unit.min_cleanliness
    /\ unit.cleanliness = CleanOne

\* C15, as stated: clean(rain) for every rain < 2.0 leaves cleanliness less
\* than or equal to what it was.
C15_LightRainNeverCleans ==
    (last.op = "clean" /\ last.rain_amount < rain_threshold)
    => unit.cleanliness <= last.cleanliness_before

\* C15, amended: clean(rain) for 0 < rain < 2.0 sets cleanliness to
\* max(min_cleanliness, cleanliness - 0.005); it is then less than or
\* equal to what it was whenever that was at least min_cleanliness.
C15_LightRainCements ==
    (last.op = "clean" /\ 0 < last.rain_amount /\ last.rain_amount < rain_threshold)
    => /\ unit.cleanliness
            = Max(unit.min_cleanliness, last.cleanliness_before - cementation_effect)
       /\ last.cleanliness_before >= unit.min_cleanliness
            => unit.cleanliness <= last.cleanliness_before

\* rain just under the threshold has taken the cementation effect off a
\* clean Panel
C15_Witness ==
    /\ last.op = "clean"
    /\ last.rain_amount = rain_threshold - 1
    /\ last.cleanliness_before = CleanOne
    /\ unit.cleanliness = CleanOne - cementation_effect

(***************************************************************************)
(* Claims on Farm.calculate_dirt_acc                                       *)
(***************************************************************************)
\* the last call was a Farm.calculate_dirt_acc, and it has returned
Soiled == last.op = "calculate_dirt_acc" /\ last.farm # 0 /\ ~last.running

\* C16: Farm.calculate_dirt_acc(hours = N) makes N draws, each clamped to
\* >= 0, and in every hour calls calculate_dirt_acc of every member exactly
\* once, with the draw of that hour; the inner loop never raises.
C16_OneDrawPerHourForAll ==
    /\ \A f \in Farms : call[f].pc = "dirt_iter" =>
          dict_next(farms[f].panels, call[f].it).outcome # "RuntimeError"
    /\ Soiled =>
        /\ Len(last.draws) = last.hours
        /\ Len(last.applied) = last.hours
        /\ \A h \in DOMAIN last.draws :
            /\ last.draws[h] >= 0
            /\ Len(last.applied[h]) = Cardinality(last.start_keys)
            /\ \A k \in last.start_keys :
                  Count(last.applied[h], <<k, last.draws[h]>>) = 1

\* Two hours with different draws have soiled a Farm of two Panels, one
\* of them the replacement of a retired Panel
C16_Witness ==
    /\ Soiled
    /\ last.hours = 2
    /\ last.draws[1] # last.draws[2]
    /\ Cardinality(last.start_keys) = 2
    /\ Len(issued) > 2

(***************************************************************************)
(* Claims on failure onset                                                 *)
(***************************************************************************)
\* C17: a Panel with failure_rate = 0.0 that is not failing stays so under
\* calculate_output, for any hours and any draws, and keeps its health.
C17_NoHazardNoFailure ==
    [][(unit.failure_rate = 0 /\ ~unit.failing)
       => (~unit'.failing /\ unit'.health = unit.health)]_vars

\* Such a Panel, with a positive failure_progression_rate and a health
\* other than the default, after MaxCalls calls and two years of hours
C17_Witness ==
    /\ unit.failure_rate = 0
    /\ ~unit.failing
    /\ unit.failure_progression_rate > 0
    /\ unit.health = 400000
    /\ calls = MaxCalls
    /\ unit.active_hours >= 2 * hours_in_year

(***************************************************************************)
(* Claims on panel_config and registered_ids                               *)
(***************************************************************************)
\* C18: building a Panel, in Farm.__init__ or in replace_if_needed, leaves
\* the Farm's panel_config as the driver passed it: it gains no panel_id.
C18_TemplateUnchanged ==
    \A f \in Farms : farms[f].exists => farms[f].panel_config = TemplateConfig

\* C19: registered_ids only grows (no step takes an id out of it), and in
\* every state the keys of every Farm's panels are registered ids, each
\* Panel stored under its own panel_id.
C19_RegistryOnlyGrows ==
    /\ [](\A f \in Farms :
            /\ dict_keys(farms[f].panels) \subseteq registered_ids
            /\ \A k \in dict_keys(farms[f].panels) :
                  dict_getitem(farms[f].panels, k).panel_id = k)
    /\ [][registered_ids \subseteq registered_ids']_vars

\* Both Farms have members, and the id of a retired Panel, a key of
\* neither Farm, is still registered
C19_Witness ==
    /\ \A f \in Farms : farms[f].exists /\ dict_keys(farms[f].panels) # {}
    /\ AllIdle
    /\ \E i \in DOMAIN issued :
          /\ issued[i] \in registered_ids
          /\ \A f \in Farms : issued[i] \notin dict_keys(farms[f].panels)

\* C20: when two Farms run _generate_id concurrently, in any interleaving of
\* their membership tests and their adds, no id is returned twice.
C20_NoDuplicateUnderRace ==
    \A i, j \in DOMAIN issued : i # j => issued[i] # issued[j]

(***************************************************************************)
(* Claims on health                                                        *)
(***************************************************************************)
\* C21: a calculate_output call that leaves health <= 0 returns early with
\* current_output = 0 and current_degradation as it was; and a Panel whose
\* health is 0 keeps health 0 under every operation, so that each later
\* calculate_output returns 0 as well.
C21_DeadIsAbsorbing ==
    [][/\ (last'.op = "calculate_output" /\ unit'.health <= 0)
          => /\ last'.returned_early
             /\ unit'.current_output = ZeroOutput
             /\ unit'.current_degradation = unit.current_degradation
       /\ unit.health = 0 => unit'.health = 0
       /\ (unit.health = 0 /\ last'.op = "calculate_output")
          => (last'.returned_early /\ unit'.current_output = ZeroOutput)]_vars

\* A Panel that was dead before the call, with degradation still to come
\* and a positive ideal output, has been through another calculate_output
C21_Witness ==
    /\ last.op = "calculate_output"
    /\ last.health_before = 0
    /\ last.ideal_output > 0
    /\ last.returned_early
    /\ unit.health = 0
    /\ unit.current_degradation < DegOne
    /\ unit.current_output = ZeroOutput

(***************************************************************************)
(* Claims on rain                                                          *)
(***************************************************************************)
\* C22: after clean(rain_amount) with rain_amount >= 2.0 the rain
\* effectiveness was within [0, max_effect], and cleanliness is at least
\* what it was before the call and at most 1.0.
C22_RainRestores ==
    (last.op = "clean" /\ last.rain_amount >= rain_threshold)
    => /\ rain_effectiveness(last.rain_amount) >= 0
       /\ rain_effectiveness(last.rain_amount) <= max_effect
       /\ unit.cleanliness >= last.cleanliness_before
       /\ unit.cleanliness <= CleanOne

C24_SeededReplay ==
    replay.pending.op = "none"
    => /\ replay.a.panel.failing = replay.b.panel.failing
       /\ replay.a.panel.health = replay.b.panel.health
       /\ replay.a.panel.current_degradation = replay.b.panel.current_degradation
       /\ replay.a.panel.cleanliness = replay.b.panel.cleanliness
       /\ replay.a.panel.current_output = replay.b.panel.current_output

\* Both Panels have been given MaxReplayCalls calls, with a draw from the
\* module's generator between the two executions of a call; the failure
\* has started by a draw, soiling has been applied with a drawn variance,
\* and an output has been produced with a drawn fluctuation
C24_Witness ==
    /\ replay.n = MaxReplayCalls
    /\ replay.pending.op = "none"
    /\ replay.interleaved
    /\ replay.a.random.private
    /\ replay.a.panel.failing
    /\ replay.a.panel.health > 0
    /\ replay.a.panel.cleanliness < CleanOne
    /\ ~OutputIsZero(replay.a.panel.current_output)

(***************************************************************************)
(* Claims on the size of a Farm                                            *)
(***************************************************************************)
\* C25: whenever no method of a Farm is running, after __init__ and after
\* any start_replacement, replace_if_needed and calculate_dirt_acc calls,
\* the Farm has exactly num_panels Panels.
C25_OneForOne ==
    \A f \in Farms :
        (farms[f].exists /\ call[f].pc = "idle")
        => ma_used(farms[f].panels) = farms[f].num_panels

\* A replace_if_needed call that began with two Panels due has ended, and
\* both members are new
C25_Witness ==
    /\ last.op = "replace_if_needed"
    /\ ~last.running
    /\ Cardinality(last.due) >= 2
    /\ AllIdle
    /\ ma_used(farms[last.farm].panels) = 2
    /\ dict_keys(farms[last.farm].panels) \cap last.start_keys = {}

(***************************************************************************)
(* Claims on what an operation leaves alone                                *)
(***************************************************************************)
\* C26: every step of calculate_output, clean, calculate_dirt_acc and
\* start_replacement leaves registered_ids and the keys of the Farm as they
\* are. calculate_output leaves the panel_id, cleanliness and days_to_replace
\* of its Panel, and every other Panel, as they are; clean and
\* calculate_dirt_acc change no field of any Panel but cleanliness;
\* start_replacement changes no field but days_to_replace, and of no Panel
\* but the one it is given.
C26_FrameEffects ==
    [][last'.op \in {"calculate_output", "clean", "calculate_dirt_acc",
                     "start_replacement"}
       => /\ registered_ids' = registered_ids
          /\ \A f \in Farms :
               /\ dict_keys(farms'[f].panels) = dict_keys(farms[f].panels)
               /\ \A k \in dict_keys(farms[f].panels) :
                    LET p == dict_getitem(farms[f].panels, k)
                        q == dict_getitem(farms'[f].panels, k)
                        given == f = last'.farm /\ k = last'.panel_id
                    IN  /\ last'.op = "calculate_output"
                           => /\ q.panel_id = p.panel_id
                              /\ q.cleanliness = p.cleanliness
                              /\ q.days_to_replace = p.days_to_replace
                              /\ given \/ q = p
                        /\ last'.op \in {"clean", "calculate_dirt_acc"}
                           => q = [p EXCEPT !.cleanliness = q.cleanliness]
                        /\ last'.op = "start_replacement"
                           => IF given
                              THEN q = [p EXCEPT !.days_to_replace = q.days_to_replace]
                              ELSE q = p]_vars

\* calculate_output has aged and damaged a member of a Farm of two that
\* had lost cleanliness and been scheduled by start_replacement before
C26_Witness ==
    /\ last.op = "calculate_output"
    /\ last.farm = 1
    /\ farms[1].num_panels = 2
    /\ LET q == dict_getitem(farms[1].panels, last.panel_id) IN
        /\ q.active_hours > 0
        /\ q.failing
        /\ q.health < last.health_before
        /\ q.cleanliness < CleanOne
        /\ q.days_to_replace > 0

====
